---- MODULE Spec2Model ----
(***************************************************************************)
(* A model of sdf3.go: the 3D signed-distance-function algebra.            *)
(*                                                                         *)
(* float64 values are fixed-point integers: the integer n stands for the   *)
(* real n / One.  Three further integers stand for +Inf, -Inf and NaN, and *)
(* every arithmetic operator follows IEEE-754 on them.  A quotient or a    *)
(* root that is not on the grid is rounded (quotients down, roots up), as  *)
(* float64 rounds to its own grid.                                         *)
(***************************************************************************)
EXTENDS Integers, Sequences, FiniteSets, TLC

VARIABLES heap, op, res, err, ret, tpc, tself, tpt, tidx, tacc, tbox

vars == <<heap, op, res, err, ret, tpc, tself, tpt, tidx, tacc, tbox>>

(***************************************************************************)
(* float64                                                                 *)
(***************************************************************************)

\* The float64 value 1.0.
One == 4

\* math.MaxFloat64: larger than every finite value the model reaches.
MaxFloat64 == 1000000

PosInf == MaxFloat64 + 1

NegInf == -PosInf

NaN == PosInf + 1

IsNaN(x) == x = NaN

IsInf(x) == x = PosInf \/ x = NegInf

IsFinite(x) == ~IsNaN(x) /\ ~IsInf(x)

\* The float64 value of the integer literal n.
F(n) == n * One

Sign(x) == IF x > 0 THEN 1 ELSE IF x < 0 THEN -1 ELSE 0

FNeg(a) == IF IsNaN(a) THEN NaN ELSE -a

FAdd(a, b) ==
    IF IsNaN(a) \/ IsNaN(b) THEN NaN
    ELSE IF IsInf(a) THEN (IF IsInf(b) /\ b # a THEN NaN ELSE a)
    ELSE IF IsInf(b) THEN b
    ELSE a + b

FSub(a, b) == FAdd(a, FNeg(b))

FMul(a, b) ==
    IF IsNaN(a) \/ IsNaN(b) THEN NaN
    ELSE IF IsInf(a) \/ IsInf(b)
         THEN (IF a = 0 \/ b = 0 THEN NaN
               ELSE IF Sign(a) * Sign(b) > 0 THEN PosInf ELSE NegInf)
    ELSE (a * b) \div One

FDiv(a, b) ==
    IF IsNaN(a) \/ IsNaN(b) THEN NaN
    ELSE IF IsInf(a)
         THEN (IF IsInf(b) THEN NaN
               ELSE IF Sign(a) * (IF b < 0 THEN -1 ELSE 1) > 0 THEN PosInf ELSE NegInf)
    ELSE IF IsInf(b) THEN 0
    ELSE IF b = 0
         THEN (IF a = 0 THEN NaN ELSE IF a > 0 THEN PosInf ELSE NegInf)
    ELSE (a * One) \div b

FLt(a, b) == ~IsNaN(a) /\ ~IsNaN(b) /\ a < b

FLe(a, b) == ~IsNaN(a) /\ ~IsNaN(b) /\ a <= b

FGt(a, b) == FLt(b, a)

FGe(a, b) == FLe(b, a)

\* math.Abs
MathAbs(a) == IF IsNaN(a) THEN NaN ELSE IF a < 0 THEN -a ELSE a

\* math.Max: NaN if either argument is NaN.
MathMax(a, b) == IF IsNaN(a) \/ IsNaN(b) THEN NaN ELSE IF a > b THEN a ELSE b

\* math.Min: NaN if either argument is NaN.
MathMin(a, b) == IF IsNaN(a) \/ IsNaN(b) THEN NaN ELSE IF a < b THEN a ELSE b

\* The least r with r * r >= n, for an integer n >= 0.
RECURSIVE RootFrom(_, _)
RootFrom(n, r) == IF r * r >= n THEN r ELSE RootFrom(n, r + 1)

\* math.Sqrt
MathSqrt(a) ==
    IF IsNaN(a) \/ a < 0 THEN NaN
    ELSE IF a = PosInf THEN PosInf
    ELSE RootFrom(a * One, 0)

\* math.Hypot: +Inf if either argument is infinite, else NaN if either is NaN.
MathHypot(a, b) ==
    IF IsInf(a) \/ IsInf(b) THEN PosInf
    ELSE IF IsNaN(a) \/ IsNaN(b) THEN NaN
    ELSE RootFrom(a * a + b * b, 0)

\* Clamp(x, a, b): x held to [a, b]; a NaN passes through.
Clamp(x, a, b) == IF FLt(x, a) THEN a ELSE IF FGt(x, b) THEN b ELSE x

\* Mix(x, y, a): linear interpolation from x to y.
Mix(x, y, a) == FAdd(x, FMul(a, FSub(y, x)))

(***************************************************************************)
(* r2.Vec, r3.Vec and the d2/d3 helpers                                    *)
(***************************************************************************)

V2(x, y) == [X |-> x, Y |-> y]

V3(x, y, z) == [X |-> x, Y |-> y, Z |-> z]

r3Add(a, b) == V3(FAdd(a.X, b.X), FAdd(a.Y, b.Y), FAdd(a.Z, b.Z))

r3Sub(a, b) == V3(FSub(a.X, b.X), FSub(a.Y, b.Y), FSub(a.Z, b.Z))

r3Scale(f, a) == V3(FMul(f, a.X), FMul(f, a.Y), FMul(f, a.Z))

r3Dot(a, b) == FAdd(FAdd(FMul(a.X, b.X), FMul(a.Y, b.Y)), FMul(a.Z, b.Z))

r3Norm(a) == MathHypot(a.X, MathHypot(a.Y, a.Z))

\* r3.Unit: the NaN vector for the zero vector.
r3Unit(a) ==
    IF a.X = 0 /\ a.Y = 0 /\ a.Z = 0 THEN V3(NaN, NaN, NaN)
    ELSE r3Scale(FDiv(One, r3Norm(a)), a)

r2Sub(a, b) == V2(FSub(a.X, b.X), FSub(a.Y, b.Y))

r2Scale(f, a) == V2(FMul(f, a.X), FMul(f, a.Y))

r2Dot(a, b) == FAdd(FMul(a.X, b.X), FMul(a.Y, b.Y))

r2Norm(a) == MathHypot(a.X, a.Y)

r2Unit(a) ==
    IF a.X = 0 /\ a.Y = 0 THEN V2(NaN, NaN)
    ELSE r2Scale(FDiv(One, r2Norm(a)), a)

d2MulElem(a, b) == V2(FMul(a.X, b.X), FMul(a.Y, b.Y))

d3AbsElem(a) == V3(MathAbs(a.X), MathAbs(a.Y), MathAbs(a.Z))

d3Elem(x) == V3(x, x, x)

d3MulElem(a, b) == V3(FMul(a.X, b.X), FMul(a.Y, b.Y), FMul(a.Z, b.Z))

d3MinElem(a, b) == V3(MathMin(a.X, b.X), MathMin(a.Y, b.Y), MathMin(a.Z, b.Z))

d3MaxElem(a, b) == V3(MathMax(a.X, b.X), MathMax(a.Y, b.Y), MathMax(a.Z, b.Z))

\* d3.Max: the largest component.
d3Max(a) == MathMax(a.X, MathMax(a.Y, a.Z))

\* d3.LTEZero: some component is <= 0.
d3LTEZero(a) == FLe(a.X, 0) \/ FLe(a.Y, 0) \/ FLe(a.Z, 0)

\* d3.Clamp: each component of p held to [a, b].
d3Clamp(p, a, b) == V3(Clamp(p.X, a.X, b.X), Clamp(p.Y, a.Y, b.Y), Clamp(p.Z, a.Z, b.Z))

(***************************************************************************)
(* d2.Box and d3.Box                                                       *)
(***************************************************************************)

Box2(min, max) == [Min |-> min, Max |-> max]

Box3(min, max) == [Min |-> min, Max |-> max]

\* d2.Box.Extend: the box union.
d2Extend(a, b) ==
    Box2(V2(MathMin(a.Min.X, b.Min.X), MathMin(a.Min.Y, b.Min.Y)),
         V2(MathMax(a.Max.X, b.Max.X), MathMax(a.Max.Y, b.Max.Y)))

\* d3.Box.Extend: the box union.
d3Extend(a, b) == Box3(d3MinElem(a.Min, b.Min), d3MaxElem(a.Max, b.Max))

d3Translate(a, v) == Box3(r3Add(a.Min, v), r3Add(a.Max, v))

d3Size(a) == r3Sub(a.Max, a.Min)

d3Center(a) == r3Add(a.Min, r3Scale(One \div 2, d3Size(a)))

\* d3.NewBox: the box of a center and a size.
d3NewBox(center, size) ==
    LET half == r3Scale(One \div 2, size)
    IN  Box3(r3Sub(center, half), r3Add(center, half))

\* d3.Box.Enlarge: the box grown by v, half of it on each side.
d3Enlarge(a, v) ==
    LET half == r3Scale(One \div 2, v)
    IN  Box3(r3Sub(a.Min, half), r3Add(a.Max, half))

\* d3.Box.Vertices: the 8 corners.
d3Vertices(a) ==
    << V3(a.Min.X, a.Min.Y, a.Min.Z), V3(a.Max.X, a.Min.Y, a.Min.Z),
       V3(a.Min.X, a.Max.Y, a.Min.Z), V3(a.Max.X, a.Max.Y, a.Min.Z),
       V3(a.Min.X, a.Min.Y, a.Max.Z), V3(a.Max.X, a.Min.Y, a.Max.Z),
       V3(a.Min.X, a.Max.Y, a.Max.Z), V3(a.Max.X, a.Max.Y, a.Max.Z) >>

RECURSIVE SetMinFrom(_, _)
SetMinFrom(v, i) == IF i = Len(v) THEN v[i] ELSE d3MinElem(v[i], SetMinFrom(v, i + 1))

RECURSIVE SetMaxFrom(_, _)
SetMaxFrom(v, i) == IF i = Len(v) THEN v[i] ELSE d3MaxElem(v[i], SetMaxFrom(v, i + 1))

\* d3.Set.Min: the elementwise minimum of a vertex set.
d3SetMin(v) == SetMinFrom(v, 1)

\* d3.Set.Max: the elementwise maximum of a vertex set.
d3SetMax(v) == SetMaxFrom(v, 1)

InBox(b, p) ==
    /\ b.Min.X <= p.X /\ p.X <= b.Max.X
    /\ b.Min.Y <= p.Y /\ p.Y <= b.Max.Y
    /\ b.Min.Z <= p.Z /\ p.Z <= b.Max.Z

(***************************************************************************)
(* m44: an affine 4x4 matrix, its rows r1, r2, r3 of the linear part and   *)
(* its translation column t (the fourth row is 0 0 0 1).                   *)
(***************************************************************************)

M44(r1, r2, r3, t) == [r1 |-> r1, r2 |-> r2, r3 |-> r3, t |-> t]

Identity3d == M44(V3(One, 0, 0), V3(0, One, 0), V3(0, 0, One), V3(0, 0, 0))

Translate3d(v) == M44(V3(One, 0, 0), V3(0, One, 0), V3(0, 0, One), v)

Scale3d(v) == M44(V3(v.X, 0, 0), V3(0, v.Y, 0), V3(0, 0, v.Z), V3(0, 0, 0))

\* RotateZ by q quarter turns (sin and cos are exact there).
RotateZ(q) ==
    LET c == CASE q % 4 = 0 -> One [] q % 4 = 2 -> -One [] OTHER -> 0
        s == CASE q % 4 = 1 -> One [] q % 4 = 3 -> -One [] OTHER -> 0
    IN  M44(V3(c, -s, 0), V3(s, c, 0), V3(0, 0, One), V3(0, 0, 0))

\* m44.MulPosition
MulPosition(m, p) ==
    V3(FAdd(r3Dot(m.r1, p), m.t.X), FAdd(r3Dot(m.r2, p), m.t.Y), FAdd(r3Dot(m.r3, p), m.t.Z))

Col(m, c) ==
    CASE c = 1 -> V3(m.r1.X, m.r2.X, m.r3.X)
      [] c = 2 -> V3(m.r1.Y, m.r2.Y, m.r3.Y)
      [] c = 3 -> V3(m.r1.Z, m.r2.Z, m.r3.Z)

\* m44.Mul: the matrix product a * b.
Mul(a, b) ==
    LET row(r) == V3(r3Dot(r, Col(b, 1)), r3Dot(r, Col(b, 2)), r3Dot(r, Col(b, 3)))
    IN  M44(row(a.r1), row(a.r2), row(a.r3),
            V3(FAdd(r3Dot(a.r1, b.t), a.t.X), FAdd(r3Dot(a.r2, b.t), a.t.Y),
               FAdd(r3Dot(a.r3, b.t), a.t.Z)))

Determinant(m) ==
    LET m2(a, b, c, d) == FSub(FMul(a, d), FMul(b, c))
    IN  FAdd(FSub(FMul(m.r1.X, m2(m.r2.Y, m.r2.Z, m.r3.Y, m.r3.Z)),
                  FMul(m.r1.Y, m2(m.r2.X, m.r2.Z, m.r3.X, m.r3.Z))),
             FMul(m.r1.Z, m2(m.r2.X, m.r2.Y, m.r3.X, m.r3.Y)))

\* m44.Inverse: the adjugate over the determinant; a singular matrix divides by 0.
Inverse(m) ==
    LET m2(a, b, c, d) == FSub(FMul(a, d), FMul(b, c))
        det == Determinant(m)
        i1 == V3(FDiv(m2(m.r2.Y, m.r2.Z, m.r3.Y, m.r3.Z), det),
                 FDiv(FNeg(m2(m.r1.Y, m.r1.Z, m.r3.Y, m.r3.Z)), det),
                 FDiv(m2(m.r1.Y, m.r1.Z, m.r2.Y, m.r2.Z), det))
        i2 == V3(FDiv(FNeg(m2(m.r2.X, m.r2.Z, m.r3.X, m.r3.Z)), det),
                 FDiv(m2(m.r1.X, m.r1.Z, m.r3.X, m.r3.Z), det),
                 FDiv(FNeg(m2(m.r1.X, m.r1.Z, m.r2.X, m.r2.Z)), det))
        i3 == V3(FDiv(m2(m.r2.X, m.r2.Y, m.r3.X, m.r3.Y), det),
                 FDiv(FNeg(m2(m.r1.X, m.r1.Y, m.r3.X, m.r3.Y)), det),
                 FDiv(m2(m.r1.X, m.r1.Y, m.r2.X, m.r2.Y), det))
    IN  M44(i1, i2, i3,
            V3(FNeg(r3Dot(i1, m.t)), FNeg(r3Dot(i2, m.t)), FNeg(r3Dot(i3, m.t))))

\* mulVertices3: every vertex mapped through the matrix.
mulVertices3(v, m) == [i \in 1..Len(v) |-> MulPosition(m, v[i])]

\* m44.MulBox: the box of the 8 mapped corners.
MulBox(m, b) ==
    LET v == mulVertices3(d3Vertices(b), m)
    IN  Box3(d3SetMin(v), d3SetMax(v))

(***************************************************************************)
(* SDF2: the 2D profile capability.  A profile is a rectangle [lo, hi]     *)
(* with the box bb it reports; its distance is the largest signed axis     *)
(* distance (correct in sign, not Euclidean).  Nil2 is the nil interface.  *)
(***************************************************************************)

Nil2 == [kind |-> "nil"]

Rect2(lo, hi, bb) == [kind |-> "Rect2", lo |-> lo, hi |-> hi, bb |-> bb]

SDF2Evaluate(s, q) ==
    MathMax(MathMax(FSub(s.lo.X, q.X), FSub(q.X, s.hi.X)),
            MathMax(FSub(s.lo.Y, q.Y), FSub(q.Y, s.hi.Y)))

SDF2BoundingBox(s) == s.bb

(***************************************************************************)
(* ExtrudeFunc: the projection of a 3D point to the 2D profile plane.      *)
(* A twist is a number of quarter turns over the height.                   *)
(***************************************************************************)

NormalExtrude == [kind |-> "NormalExtrude"]

TwistExtrude(height, twist) ==
    [kind |-> "TwistExtrude", k |-> FDiv(twist, height)]

ScaleExtrude(height, scale) ==
    LET inv == V2(FDiv(One, scale.X), FDiv(One, scale.Y))
    IN  [kind |-> "ScaleExtrude",
         m |-> V2(FDiv(FSub(inv.X, One), height), FDiv(FSub(inv.Y, One), height)),
         b |-> V2(FDiv(FAdd(inv.X, One), F(2)), FDiv(FAdd(inv.Y, One), F(2)))]

ScaleTwistExtrude(height, twist, scale) ==
    LET s == ScaleExtrude(height, scale)
    IN  [kind |-> "ScaleTwistExtrude", k |-> FDiv(twist, height), m |-> s.m, b |-> s.b]

\* A 2D rotation by an angle in quarter turns; sin and cos of a
\* non-finite angle are NaN.  A fractional angle is rounded down.
Rotate2d(angle, q) ==
    IF ~IsFinite(angle) THEN V2(NaN, NaN)
    ELSE LET n == (angle \div One) % 4
         IN  CASE n = 0 -> q
               [] n = 1 -> V2(FNeg(q.Y), q.X)
               [] n = 2 -> V2(FNeg(q.X), FNeg(q.Y))
               [] n = 3 -> V2(q.Y, FNeg(q.X))

\* The call extrude(p) of an ExtrudeFunc value.
ApplyExtrude(f, p) ==
    LET scaled == V2(FMul(p.X, FAdd(FMul(f.m.X, p.Z), f.b.X)),
                     FMul(p.Y, FAdd(FMul(f.m.Y, p.Z), f.b.Y)))
    IN  CASE f.kind = "NormalExtrude" -> V2(p.X, p.Y)
          [] f.kind = "TwistExtrude" -> Rotate2d(FMul(p.Z, f.k), V2(p.X, p.Y))
          [] f.kind = "ScaleExtrude" -> scaled
          [] f.kind = "ScaleTwistExtrude" -> Rotate2d(FMul(p.Z, f.k), scaled)

(***************************************************************************)
(* Angles are in quarter turns, where sin and cos are exact.               *)
(***************************************************************************)

pi == 2 * One

tau == 4 * One

\* math.Sin of an angle in quarter turns (a fractional angle is rounded down).
MathSin(a) ==
    IF ~IsFinite(a) THEN NaN
    ELSE CASE (a \div One) % 4 = 1 -> One [] (a \div One) % 4 = 3 -> -One [] OTHER -> 0

\* math.Cos of an angle in quarter turns (a fractional angle is rounded down).
MathCos(a) ==
    IF ~IsFinite(a) THEN NaN
    ELSE CASE (a \div One) % 4 = 0 -> One [] (a \div One) % 4 = 2 -> -One [] OTHER -> 0

\* math.Mod(x, y) for finite x >= 0 and y > 0.
MathMod(x, y) == IF ~IsFinite(x) THEN NaN ELSE x % y

\* d2.Set.Min and d2.Set.Max: the elementwise extremes of a set of vectors.
d2SetMin(vs) ==
    V2(CHOOSE x \in {v.X : v \in vs} : \A w \in vs : x <= w.X,
       CHOOSE y \in {v.Y : v \in vs} : \A w \in vs : y <= w.Y)

d2SetMax(vs) ==
    V2(CHOOSE x \in {v.X : v \in vs} : \A w \in vs : x >= w.X,
       CHOOSE y \in {v.Y : v \in vs} : \A w \in vs : y >= w.Y)

(***************************************************************************)
(* The heap of nodes.  An SDF3 value is an address of the heap (a pointer  *)
(* to a struct) or Nil.  A constructor yields a fresh struct (New), a      *)
(* pointer it was given or nil (Ptr), nil with an error (Fail), or it      *)
(* panics on a nil dereference (Panic).                                    *)
(***************************************************************************)

Nil == 0

NoNode == [kind |-> "none"]

New(node) == [new |-> TRUE, node |-> node, addr |-> Nil, err |-> "nil"]

Ptr(a) == [new |-> FALSE, node |-> NoNode, addr |-> a, err |-> "nil"]

Fail == [new |-> FALSE, node |-> NoNode, addr |-> Nil, err |-> "error"]

Panic == [new |-> FALSE, node |-> NoNode, addr |-> Nil, err |-> "panic"]

\* The heap after a constructor returned r: a fresh struct is allocated on it.
HeapOf(h, r) == IF r.new THEN Append(h, r.node) ELSE h

\* The BoundingBox method of every node type returns the stored box.
BoundingBox(h, a) == h[a].bb

(***************************************************************************)
(* Solid of revolution                                                     *)
(***************************************************************************)

RevolveTheta3D(sdf, theta) ==
    IF sdf = Nil2 THEN Ptr(Nil)
    ELSE IF FLt(theta, 0) THEN Fail
    ELSE LET th == MathMod(MathAbs(theta), tau)
             sin == MathSin(th)
             cos == MathCos(th)
             vset == IF th = 0 THEN {V2(One, One), V2(-One, -One)}
                     ELSE {V2(0, 0), V2(One, 0), V2(cos, sin)}
                          \cup (IF FGt(th, pi \div 2) THEN {V2(0, One)} ELSE {})
                          \cup (IF FGt(th, pi) THEN {V2(-One, 0)} ELSE {})
                          \cup (IF FGt(th, (3 * pi) \div 2) THEN {V2(0, -One)} ELSE {})
             bb == SDF2BoundingBox(sdf)
             l == MathMax(MathAbs(bb.Min.X), MathAbs(bb.Max.X))
             vmin == r2Scale(l, d2SetMin(vset))
             vmax == r2Scale(l, d2SetMax(vset))
         IN  New([kind |-> "SorSDF3", sdf |-> sdf, theta |-> th,
                  norm |-> V2(FNeg(sin), cos),
                  bb |-> Box3(V3(vmin.X, vmin.Y, bb.Min.Y), V3(vmax.X, vmax.Y, bb.Max.Y))])

Revolve3D(sdf) == RevolveTheta3D(sdf, 0)

SorEvaluate(s, p) ==
    LET x == MathSqrt(FAdd(FMul(p.X, p.X), FMul(p.Y, p.Y)))
        a == SDF2Evaluate(s.sdf, V2(x, p.Z))
        d == r2Dot(s.norm, V2(p.X, p.Y))
        b == IF s.theta # 0
             THEN (IF FLt(s.theta, pi) THEN MathMax(FNeg(p.Y), d) ELSE MathMin(FNeg(p.Y), d))
             ELSE a
    IN  MathMax(a, b)

(***************************************************************************)
(* Extrusions                                                              *)
(***************************************************************************)

Extrude3D(sdf, height) ==
    IF sdf = Nil2 THEN Panic
    ELSE LET hh == FDiv(height, F(2))
             bb == SDF2BoundingBox(sdf)
         IN  New([kind |-> "ExtrudeSDF3", sdf |-> sdf, height |-> hh,
                  extrude |-> NormalExtrude,
                  bb |-> Box3(V3(bb.Min.X, bb.Min.Y, FNeg(hh)), V3(bb.Max.X, bb.Max.Y, hh))])

TwistExtrude3D(sdf, height, twist) ==
    IF sdf = Nil2 THEN Panic
    ELSE LET hh == FDiv(height, F(2))
             bb == SDF2BoundingBox(sdf)
             l == r2Norm(bb.Max)
         IN  New([kind |-> "ExtrudeSDF3", sdf |-> sdf, height |-> hh,
                  extrude |-> TwistExtrude(height, twist),
                  bb |-> Box3(V3(FNeg(l), FNeg(l), FNeg(hh)), V3(l, l, hh))])

ScaleExtrude3D(sdf, height, scale) ==
    IF sdf = Nil2 THEN Panic
    ELSE LET hh == FDiv(height, F(2))
             bb0 == SDF2BoundingBox(sdf)
             bb == d2Extend(bb0, Box2(d2MulElem(bb0.Min, scale), d2MulElem(bb0.Max, scale)))
         IN  New([kind |-> "ExtrudeSDF3", sdf |-> sdf, height |-> hh,
                  extrude |-> ScaleExtrude(height, scale),
                  bb |-> Box3(V3(bb.Min.X, bb.Min.Y, FNeg(hh)), V3(bb.Max.X, bb.Max.Y, hh))])

ScaleTwistExtrude3D(sdf, height, twist, scale) ==
    IF sdf = Nil2 THEN Panic
    ELSE LET hh == FDiv(height, F(2))
             bb0 == SDF2BoundingBox(sdf)
             bb == d2Extend(bb0, Box2(d2MulElem(bb0.Min, scale), d2MulElem(bb0.Max, scale)))
             l == r2Norm(bb.Max)
         IN  New([kind |-> "ExtrudeSDF3", sdf |-> sdf, height |-> hh,
                  extrude |-> ScaleTwistExtrude(height, twist, scale),
                  bb |-> Box3(V3(FNeg(l), FNeg(l), FNeg(hh)), V3(l, l, hh))])

ExtrudeEvaluate(s, p) ==
    LET a == SDF2Evaluate(s.sdf, ApplyExtrude(s.extrude, p))
        b == FSub(MathAbs(p.Z), s.height)
    IN  MathMax(a, b)

ExtrudeRounded3D(sdf, height, round) ==
    IF round = 0 THEN Extrude3D(sdf, height)
    ELSE IF sdf = Nil2 THEN Fail
    ELSE IF FLe(height, 0) THEN Fail
    ELSE IF FLt(round, 0) THEN Fail
    ELSE IF FLt(height, FMul(F(2), round)) THEN Fail
    ELSE LET hh == FSub(FDiv(height, F(2)), round)
             bb == SDF2BoundingBox(sdf)
         IN  New([kind |-> "ExtrudeRoundedSDF3", sdf |-> sdf, height |-> hh, round |-> round,
                  bb |-> Box3(r3Sub(V3(bb.Min.X, bb.Min.Y, FNeg(hh)), d3Elem(round)),
                              r3Add(V3(bb.Max.X, bb.Max.Y, hh), d3Elem(round)))])

\* The four-way case split shared by the rounded extrusion and the loft.
RoundedSplit(a, b, round) ==
    LET d == IF FGt(b, 0)
             THEN (IF FLt(a, 0) THEN b ELSE MathSqrt(FAdd(FMul(a, a), FMul(b, b))))
             ELSE (IF FLt(a, 0) THEN MathMax(a, b) ELSE a)
    IN  FSub(d, round)

ExtrudeRoundedEvaluate(s, p) ==
    LET a == SDF2Evaluate(s.sdf, V2(p.X, p.Y))
        b == FSub(MathAbs(p.Z), s.height)
    IN  RoundedSplit(a, b, s.round)

Loft3D(sdf0, sdf1, height, round) ==
    IF sdf0 = Nil2 THEN Fail
    ELSE IF sdf1 = Nil2 THEN Fail
    ELSE IF FLe(height, 0) THEN Fail
    ELSE IF FLt(round, 0) THEN Fail
    ELSE IF FLt(height, FMul(F(2), round)) THEN Fail
    ELSE LET hh == FSub(FDiv(height, F(2)), round)
             bb == d2Extend(SDF2BoundingBox(sdf0), SDF2BoundingBox(sdf1))
         IN  New([kind |-> "LoftSDF3", sdf0 |-> sdf0, sdf1 |-> sdf1, height |-> hh,
                  round |-> round,
                  bb |-> Box3(r3Sub(V3(bb.Min.X, bb.Min.Y, FNeg(hh)), d3Elem(round)),
                              r3Add(V3(bb.Max.X, bb.Max.Y, hh), d3Elem(round)))])

LoftEvaluate(s, p) ==
    LET k == Clamp(FAdd(FDiv(FMul(One \div 2, p.Z), s.height), One \div 2), 0, One)
        a0 == SDF2Evaluate(s.sdf0, V2(p.X, p.Y))
        a1 == SDF2Evaluate(s.sdf1, V2(p.X, p.Y))
        a == Mix(a0, a1, k)
        b == FSub(MathAbs(p.Z), s.height)
    IN  RoundedSplit(a, b, s.round)

(***************************************************************************)
(* Primitives                                                              *)
(***************************************************************************)

\* sdfBox3d taking the first axis, not the largest, for a point inside.
sdfBox3dInnerX(p, s) ==
    LET d == r3Sub(d3AbsElem(p), s)
    IN  IF FGt(d.X, 0) /\ FGt(d.Y, 0) /\ FGt(d.Z, 0) THEN r3Norm(d)
        ELSE IF FGt(d.X, 0) /\ FGt(d.Y, 0) THEN MathHypot(d.X, d.Y)
        ELSE IF FGt(d.X, 0) /\ FGt(d.Z, 0) THEN MathHypot(d.X, d.Z)
        ELSE IF FGt(d.Y, 0) /\ FGt(d.Z, 0) THEN MathHypot(d.Y, d.Z)
        ELSE IF FGt(d.X, 0) THEN d.X
        ELSE IF FGt(d.Y, 0) THEN d.Y
        ELSE IF FGt(d.Z, 0) THEN d.Z
        ELSE d.X

sdfBox3d(p, s) ==
    LET d == r3Sub(d3AbsElem(p), s)
    IN  IF FGt(d.X, 0) /\ FGt(d.Y, 0) /\ FGt(d.Z, 0) THEN r3Norm(d)
        ELSE IF FGt(d.X, 0) /\ FGt(d.Y, 0) THEN MathHypot(d.X, d.Y)
        ELSE IF FGt(d.X, 0) /\ FGt(d.Z, 0) THEN MathHypot(d.X, d.Z)
        ELSE IF FGt(d.Y, 0) /\ FGt(d.Z, 0) THEN MathHypot(d.Y, d.Z)
        ELSE IF FGt(d.X, 0) THEN d.X
        ELSE IF FGt(d.Y, 0) THEN d.Y
        ELSE IF FGt(d.Z, 0) THEN d.Z
        ELSE d3Max(d)

\* sdfBox2d: the 2D box distance of the point p for the half-size s.
sdfBox2d(p, s) ==
    LET d == r2Sub(V2(MathAbs(p.X), MathAbs(p.Y)), s)
    IN  IF FGt(d.X, 0) /\ FGt(d.Y, 0) THEN r2Norm(d)
        ELSE IF FGt(FSub(d.Y, d.X), 0) THEN d.Y
        ELSE d.X

Box3D(size, round) ==
    IF d3LTEZero(size) THEN Fail
    ELSE IF FLt(round, 0) THEN Fail
    ELSE LET half == r3Scale(One \div 2, size)
         IN  New([kind |-> "BoxSDF3", size |-> r3Sub(half, d3Elem(round)), round |-> round,
                  bb |-> Box3(r3Scale(-One, half), half)])

BoxEvaluate(s, p) == FSub(sdfBox3d(p, s.size), s.round)

Sphere3D(radius) ==
    IF FLe(radius, 0) THEN Fail
    ELSE LET d == V3(radius, radius, radius)
         IN  New([kind |-> "SphereSDF3", radius |-> radius, bb |-> Box3(r3Scale(-One, d), d)])

SphereEvaluate(s, p) == FSub(r3Norm(p), s.radius)

Cylinder3D(height, radius, round) ==
    IF FLe(radius, 0) THEN Fail
    ELSE IF FLt(round, 0) THEN Fail
    ELSE IF FGt(round, radius) THEN Fail
    ELSE IF FLt(height, FMul(F(2), round)) THEN Fail
    ELSE LET d == V3(radius, radius, FDiv(height, F(2)))
         IN  New([kind |-> "CylinderSDF3", height |-> FSub(FDiv(height, F(2)), round),
                  radius |-> FSub(radius, round), round |-> round,
                  bb |-> Box3(r3Scale(-One, d), d)])

Capsule3D(height, radius) == Cylinder3D(height, radius, radius)

CylinderEvaluate(s, p) ==
    LET d == sdfBox2d(V2(r2Norm(V2(p.X, p.Y)), p.Z), V2(s.radius, s.height))
    IN  FSub(d, s.round)

Cone3D(height, r0, r1, round) ==
    IF FLe(height, 0) THEN Fail
    ELSE IF FLt(round, 0) THEN Fail
    ELSE IF FLt(height, FMul(F(2), round)) THEN Fail
    ELSE LET hh == FSub(FDiv(height, F(2)), round)
             u == r2Unit(r2Sub(V2(r1, FDiv(height, F(2))), V2(r0, FDiv(FNeg(height), F(2)))))
             n == V2(u.Y, FNeg(u.X))
             ofs == FDiv(round, n.X)
             sr0 == FSub(r0, FMul(FAdd(One, n.Y), ofs))
             sr1 == FSub(r1, FMul(FSub(One, n.Y), ofs))
             l == r2Norm(r2Sub(V2(sr1, hh), V2(sr0, FNeg(hh))))
             r == MathMax(FAdd(sr0, round), FAdd(sr1, round))
         IN  New([kind |-> "ConeSDF3", r0 |-> sr0, r1 |-> sr1, height |-> hh, round |-> round,
                  u |-> u, n |-> n, l |-> l,
                  bb |-> Box3(V3(FNeg(r), FNeg(r), FDiv(FNeg(height), F(2))),
                              V3(r, r, FDiv(height, F(2))))])

ConeEvaluate(s, p) ==
    LET p2 == V2(MathHypot(p.X, p.Y), p.Z)
        v == r2Sub(p2, V2(s.r0, FNeg(s.height)))
        dSlope == r2Dot(v, s.n)
        t == r2Dot(v, s.u)
    IN  IF FGe(p2.Y, s.height) /\ FLe(p2.X, s.r1)
        THEN FSub(FSub(p2.Y, s.height), s.round)
        ELSE IF FLe(p2.Y, FNeg(s.height)) /\ FLe(p2.X, s.r0)
        THEN FSub(FSub(FNeg(p2.Y), s.height), s.round)
        ELSE IF FLt(dSlope, 0) /\ FLt(MathAbs(p2.Y), s.height)
        THEN FSub(FNeg(MathMin(FNeg(dSlope), FSub(s.height, MathAbs(p2.Y)))), s.round)
        ELSE IF FGe(t, 0) /\ FLe(t, s.l) THEN FSub(dSlope, s.round)
        ELSE IF FLt(t, 0) THEN FSub(r2Norm(v), s.round)
        ELSE FSub(r2Norm(r2Sub(p2, V2(s.r1, s.height))), s.round)

(***************************************************************************)
(* Combinators: the constructors.  h is the heap the operands live in.     *)
(***************************************************************************)

\* Transform3D whose box keeps the child's box beside the transformed one.
Transform3DKeepBox(h, sdf, matrix) ==
    IF sdf = Nil THEN Panic
    ELSE New([kind |-> "TransformSDF3", sdf |-> sdf, matrix |-> matrix,
              inverse |-> Inverse(matrix),
              bb |-> d3Extend(BoundingBox(h, sdf), MulBox(matrix, BoundingBox(h, sdf)))])

Transform3D(h, sdf, matrix) ==
    IF sdf = Nil THEN Panic
    ELSE New([kind |-> "TransformSDF3", sdf |-> sdf, matrix |-> matrix,
              inverse |-> Inverse(matrix), bb |-> MulBox(matrix, BoundingBox(h, sdf))])

\* ScaleUniform3D storing k where the reciprocal belongs.
ScaleUniform3DNoInverse(h, sdf, k) ==
    IF sdf = Nil THEN Panic
    ELSE New([kind |-> "ScaleUniformSDF3", sdf |-> sdf, k |-> k, invK |-> k,
              bb |-> MulBox(Scale3d(V3(k, k, k)), BoundingBox(h, sdf))])

ScaleUniform3D(h, sdf, k) ==
    IF sdf = Nil THEN Panic
    ELSE New([kind |-> "ScaleUniformSDF3", sdf |-> sdf, k |-> k, invK |-> FDiv(One, k),
              bb |-> MulBox(Scale3d(V3(k, k, k)), BoundingBox(h, sdf))])

\* The arguments of Union3D with the nils stripped.
StripNil(sdf) == SelectSeq(sdf, LAMBDA x : x # Nil)

RECURSIVE ExtendAll(_, _, _, _)
ExtendAll(h, sdf, i, bb) ==
    IF i > Len(sdf) THEN bb
    ELSE ExtendAll(h, sdf, i + 1, d3Extend(bb, BoundingBox(h, sdf[i])))

\* Variants of the boolean constructors, to measure the properties below against.
Union3DWrapOne(h, sdf) ==
    LET s == StripNil(sdf)
    IN  IF Len(s) = 0 THEN Ptr(Nil)
        ELSE New([kind |-> "UnionSDF3", sdf |-> s, min |-> "math.Min",
                  bb |-> ExtendAll(h, s, 1, BoundingBox(h, s[1]))])

Union3DNilPoison(h, sdf) ==
    IF Len(sdf) = 0 \/ Len(StripNil(sdf)) < Len(sdf) THEN Ptr(Nil)
    ELSE IF Len(sdf) = 1 THEN Ptr(sdf[1])
    ELSE New([kind |-> "UnionSDF3", sdf |-> sdf, min |-> "math.Min",
              bb |-> ExtendAll(h, sdf, 1, BoundingBox(h, sdf[1]))])

Difference3DSubtrahendBox(h, s0, s1) ==
    IF s1 = Nil THEN Ptr(s0)
    ELSE IF s0 = Nil THEN Ptr(Nil)
    ELSE New([kind |-> "DifferenceSDF3", s0 |-> s0, s1 |-> s1, max |-> "math.Max",
              bb |-> BoundingBox(h, s1)])

Union3D(h, sdf) ==
    IF Len(sdf) = 0 THEN Ptr(Nil)
    ELSE LET s == StripNil(sdf)
         IN  IF Len(s) = 0 THEN Ptr(Nil)
             ELSE IF Len(s) = 1 THEN Ptr(s[1])
             ELSE New([kind |-> "UnionSDF3", sdf |-> s, min |-> "math.Min",
                       bb |-> ExtendAll(h, s, 1, BoundingBox(h, s[1]))])

Difference3D(h, s0, s1) ==
    IF s1 = Nil THEN Ptr(s0)
    ELSE IF s0 = Nil THEN Ptr(Nil)
    ELSE New([kind |-> "DifferenceSDF3", s0 |-> s0, s1 |-> s1, max |-> "math.Max",
              bb |-> BoundingBox(h, s0)])

Elongate3D(h, sdf, hv) ==
    IF sdf = Nil THEN Panic
    ELSE LET ha == d3AbsElem(hv)
             hp == r3Scale(One \div 2, ha)
             hn == r3Scale(-(One \div 2), ha)
             bb == BoundingBox(h, sdf)
         IN  New([kind |-> "ElongateSDF3", sdf |-> sdf, hp |-> hp, hn |-> hn,
                  bb |-> d3Extend(d3Translate(bb, hp), d3Translate(bb, hn))])

Intersect3D(h, s0, s1) ==
    IF s0 = Nil \/ s1 = Nil THEN Ptr(Nil)
    ELSE New([kind |-> "IntersectionSDF3", s0 |-> s0, s1 |-> s1, max |-> "math.Max",
              bb |-> BoundingBox(h, s0)])

Cut3D(h, sdf, a, n) ==
    IF sdf = Nil THEN Panic
    ELSE New([kind |-> "CutSDF3", sdf |-> sdf, a |-> a, n |-> r3Scale(-One, r3Unit(n)),
              bb |-> BoundingBox(h, sdf)])

\* num is a V3i: a triple of ints.
\* Array3D whose box reaches one step past the last copy.
Array3DOneMore(h, sdf, num, step) ==
    IF num[1] <= 0 \/ num[2] <= 0 \/ num[3] <= 0 THEN Ptr(Nil)
    ELSE IF sdf = Nil THEN Panic
    ELSE LET bb0 == BoundingBox(h, sdf)
             bb1 == d3Translate(bb0, d3MulElem(step, V3(F(num[1]), F(num[2]), F(num[3]))))
         IN  New([kind |-> "ArraySDF3", sdf |-> sdf, num |-> num, step |-> step,
                  min |-> "math.Min", bb |-> d3Extend(bb0, bb1)])

Array3D(h, sdf, num, step) ==
    IF num[1] <= 0 \/ num[2] <= 0 \/ num[3] <= 0 THEN Ptr(Nil)
    ELSE IF sdf = Nil THEN Panic
    ELSE LET bb0 == BoundingBox(h, sdf)
             bb1 == d3Translate(bb0, d3MulElem(step, V3(F(num[1] - 1), F(num[2] - 1), F(num[3] - 1))))
         IN  New([kind |-> "ArraySDF3", sdf |-> sdf, num |-> num, step |-> step,
                  min |-> "math.Min", bb |-> d3Extend(bb0, bb1)])

RECURSIVE RotateUnionBox(_, _, _, _, _, _)
RotateUnionBox(v, step, i, num, bbMin, bbMax) ==
    IF i >= num THEN Box3(bbMin, bbMax)
    ELSE RotateUnionBox(mulVertices3(v, step), step, i + 1, num,
                        d3MinElem(bbMin, d3SetMin(v)), d3MaxElem(bbMax, d3SetMax(v)))

RotateUnion3D(h, sdf, num, step) ==
    IF num <= 0 THEN Ptr(Nil)
    ELSE IF sdf = Nil THEN Panic
    ELSE LET v == d3Vertices(BoundingBox(h, sdf))
         IN  New([kind |-> "RotateUnionSDF3", sdf |-> sdf, num |-> num,
                  step |-> Inverse(step), min |-> "math.Min",
                  bb |-> RotateUnionBox(v, step, 0, num, v[1], v[1])])

RECURSIVE MaxHypot(_, _, _)
MaxHypot(v, i, rmax) ==
    IF i > Len(v) THEN rmax
    ELSE LET l == MathHypot(v[i].X, v[i].Y)
         IN  MaxHypot(v, i + 1, IF FGt(l, rmax) THEN l ELSE rmax)

RotateCopy3D(h, sdf, num) ==
    IF num <= 0 THEN Ptr(Nil)
    ELSE IF sdf = Nil THEN Panic
    ELSE LET bb == BoundingBox(h, sdf)
             rmax == MaxHypot(d3Vertices(bb), 1, 0)
         IN  New([kind |-> "RotateCopySDF3", sdf |-> sdf, theta |-> FDiv(tau, F(num)),
                  bb |-> Box3(V3(FNeg(rmax), FNeg(rmax), bb.Min.Z), V3(rmax, rmax, bb.Max.Z))])

Offset3D(h, sdf, offset) ==
    IF sdf = Nil THEN Panic
    ELSE LET bb == BoundingBox(h, sdf)
         IN  New([kind |-> "OffsetSDF3", sdf |-> sdf, offset |-> offset,
                  bb |-> d3NewBox(d3Center(bb), r3Add(d3Size(bb), d3Elem(FMul(F(2), offset))))])

Shell3D(h, sdf, thickness) ==
    IF FLe(thickness, 0) THEN Fail
    ELSE IF sdf = Nil THEN Panic
    ELSE New([kind |-> "ShellSDF3", sdf |-> sdf, delta |-> FMul(One \div 2, thickness),
              bb |-> d3Enlarge(BoundingBox(h, sdf), V3(thickness, thickness, thickness))])

(***************************************************************************)
(* Blend functions: a MinFunc or MaxFunc value is math.Min or math.Max, or *)
(* a caller's rounded blend, which undercuts (overshoots) by a radius.     *)
(***************************************************************************)

ApplyMin(f, a, b) == IF f = "math.Min" THEN MathMin(a, b) ELSE FSub(MathMin(a, b), One)

ApplyMax(f, a, b) == IF f = "math.Max" THEN MathMax(a, b) ELSE FAdd(MathMax(a, b), One)

(***************************************************************************)
(* Evaluate, by node type                                                  *)
(***************************************************************************)

\* SawTooth folds the polar angle of q into [-theta/2, theta/2): q turned
\* back by a whole number of sectors.  theta is a whole number of quarter turns.
RECURSIVE FoldSector(_, _, _)
FoldSector(q, theta, n) ==
    LET in == \/ (q.X = 0 /\ q.Y = 0)
              \/ theta = 4 * One
              \/ theta = 2 * One /\ (q.X > 0 \/ (q.X = 0 /\ q.Y < 0))
              \/ theta = One /\ q.X > 0 /\ -q.X <= q.Y /\ q.Y < q.X
    IN  IF in \/ n = 0 THEN q ELSE FoldSector(Rotate2d(FNeg(theta), q), theta, n - 1)

RECURSIVE Evaluate(_, _, _)
RECURSIVE UnionLoop(_, _, _, _, _)
RECURSIVE ArrayLoop(_, _, _, _, _)
RECURSIVE RotateUnionLoop(_, _, _, _, _, _)

UnionStep(h, s, p, i, d) ==
    IF i = 1 THEN Evaluate(h, s.sdf[i], p)
    ELSE ApplyMin(s.min, d, Evaluate(h, s.sdf[i], p))

UnionLoop(h, s, p, i, d) ==
    IF i > Len(s.sdf) THEN d ELSE UnionLoop(h, s, p, i + 1, UnionStep(h, s, p, i, d))

\* The n-th pass of ArraySDF3.Evaluate's loop nest, n = (j * num[2] + k) * num[3] + l.
ArrayStep(h, s, p, n, d) ==
    LET l == n % s.num[3]
        k == (n \div s.num[3]) % s.num[2]
        j == n \div (s.num[3] * s.num[2])
        x == r3Sub(p, V3(FMul(F(j), s.step.X), FMul(F(k), s.step.Y), FMul(F(l), s.step.Z)))
    IN  ApplyMin(s.min, d, Evaluate(h, s.sdf, x))

ArrayLoop(h, s, p, n, d) ==
    IF n >= s.num[1] * s.num[2] * s.num[3] THEN d
    ELSE ArrayLoop(h, s, p, n + 1, ArrayStep(h, s, p, n, d))

RotateUnionLoop(h, s, p, i, rot, d) ==
    IF i >= s.num THEN d
    ELSE RotateUnionLoop(h, s, p, i + 1, Mul(rot, s.step),
                         ApplyMin(s.min, d, Evaluate(h, s.sdf, MulPosition(rot, p))))

RotateCopyEvaluate(h, s, p) ==
    LET p2 == IF IsFinite(p.X) /\ IsFinite(p.Y) /\ IsFinite(s.theta)
              THEN FoldSector(V2(p.X, p.Y), s.theta, 4)
              ELSE V2(NaN, NaN)
    IN  Evaluate(h, s.sdf, V3(p2.X, p2.Y, p.Z))

Evaluate(h, a, p) ==
    LET s == h[a]
    IN  CASE s.kind = "SorSDF3" -> SorEvaluate(s, p)
          [] s.kind = "ExtrudeSDF3" -> ExtrudeEvaluate(s, p)
          [] s.kind = "ExtrudeRoundedSDF3" -> ExtrudeRoundedEvaluate(s, p)
          [] s.kind = "LoftSDF3" -> LoftEvaluate(s, p)
          [] s.kind = "BoxSDF3" -> BoxEvaluate(s, p)
          [] s.kind = "SphereSDF3" -> SphereEvaluate(s, p)
          [] s.kind = "CylinderSDF3" -> CylinderEvaluate(s, p)
          [] s.kind = "ConeSDF3" -> ConeEvaluate(s, p)
          [] s.kind = "TransformSDF3" -> Evaluate(h, s.sdf, MulPosition(s.inverse, p))
          [] s.kind = "ScaleUniformSDF3" -> FMul(Evaluate(h, s.sdf, r3Scale(s.invK, p)), s.k)
          [] s.kind = "UnionSDF3" -> UnionLoop(h, s, p, 1, 0)
          [] s.kind = "DifferenceSDF3" ->
                ApplyMax(s.max, Evaluate(h, s.s0, p), FNeg(Evaluate(h, s.s1, p)))
          [] s.kind = "ElongateSDF3" -> Evaluate(h, s.sdf, r3Sub(p, d3Clamp(p, s.hn, s.hp)))
          [] s.kind = "IntersectionSDF3" ->
                ApplyMax(s.max, Evaluate(h, s.s0, p), Evaluate(h, s.s1, p))
          [] s.kind = "CutSDF3" -> MathMax(r3Dot(r3Sub(p, s.a), s.n), Evaluate(h, s.sdf, p))
          [] s.kind = "ArraySDF3" -> ArrayLoop(h, s, p, 0, MaxFloat64)
          [] s.kind = "RotateUnionSDF3" -> RotateUnionLoop(h, s, p, 0, Identity3d, MaxFloat64)
          [] s.kind = "RotateCopySDF3" -> RotateCopyEvaluate(h, s, p)
          [] s.kind = "OffsetSDF3" -> FSub(Evaluate(h, s.sdf, p), s.offset)
          [] s.kind = "ShellSDF3" -> FSub(MathAbs(Evaluate(h, s.sdf, p)), s.delta)

(***************************************************************************)
(* Bounds and the inputs drawn from them                                   *)
(***************************************************************************)

\* Query points lie on the integer grid -MaxCoord .. MaxCoord on each axis.
MaxCoord == 3

\* Lengths (sizes, radii, heights, rounds, offsets) range over -1 .. MaxLen.
MaxLen == 2

\* Union3D is called with up to MaxArgs arguments.
MaxArgs == 3

Coords == {F(i) : i \in -MaxCoord..MaxCoord}

Points == {V3(x, y, z) : x \in Coords, y \in Coords, z \in Coords}

Lens == {F(i) : i \in -1..MaxLen}

\* Profiles: centred, off-centre on either side, one whose reported box
\* is too small, and the nil interface.
RectCentre == Rect2(V2(-One, -One), V2(One, One), Box2(V2(-One, -One), V2(One, One)))

RectRight == Rect2(V2(One, 0), V2(F(3), F(2)), Box2(V2(One, 0), V2(F(3), F(2))))

RectLeft == Rect2(V2(F(-3), F(-2)), V2(-One, 0), Box2(V2(F(-3), F(-2)), V2(-One, 0)))

RectLoose == Rect2(V2(F(-2), -One), V2(F(2), One), Box2(V2(-One, -One), V2(One, One)))

Profiles == {Nil2, RectCentre, RectRight, RectLeft, RectLoose}

\* Twists and partial-revolution angles, in quarter turns.
Twists == {0, F(2), F(4)}

Thetas == {F(i) : i \in -1..5}

Scales == {V2(One, One), V2(F(2), F(2)), V2(-One, -One), V2(0, 0)}

Vecs == {V3(0, 0, 0), V3(F(2), 0, 0), V3(0, F(-2), 0), V3(F(1), F(1), F(1))}

\* A shear of x along y: invertible, and not axis-preserving.
ShearXY(k) == M44(V3(One, k, 0), V3(0, One, 0), V3(0, 0, One), V3(0, 0, 0))

Matrices == {Identity3d, Translate3d(V3(F(2), 0, 0)), RotateZ(1), Scale3d(V3(F(2), F(2), F(2))),
             Scale3d(V3(0, 0, 0)), Translate3d(V3(F(-2), 0, 0)), RotateZ(3),
             ShearXY(One), ShearXY(-One)}

Counts == {0, 1, 2}

\* Scale factors: the lengths and 3, whose reciprocal is not exact.
Factors == Lens \cup {F(3)}

\* The operands of the combinators: three leaves built by their constructors
\* (the last has a box that misses part of its solid), and a transform of
\* the first.
Leaves ==
    << Box3D(V3(F(4), F(2), F(2)), 0).node,
       Sphere3D(F(1)).node,
       TwistExtrude3D(RectLeft, F(2), 0).node >>

Operands0 == HeapOf(Leaves, Transform3D(Leaves, 1, Translate3d(V3(F(2), 0, 0))))

(***************************************************************************)
(* State: the heap, the last call (op), its result (res, err) and the      *)
(* value a method call returned (ret); per thread, its place in a method   *)
(* call (tpc), the receiver s (tself), the point p (tpt), the loop counter *)
(* (tidx), the local d (tacc) and the box it was returned (tbox).           *)
(***************************************************************************)

NumThreads == 2

Threads == 1..NumThreads

NoRet == [kind |-> "none"]

InitCommon ==
    /\ op = [name |-> "init", args |-> <<>>, fresh |-> FALSE]
    /\ res = Nil
    /\ err = "nil"
    /\ ret = NoRet
    /\ tpc = [t \in Threads |-> "idle"]
    /\ tself = [t \in Threads |-> Nil]
    /\ tpt = [t \in Threads |-> V3(0, 0, 0)]
    /\ tidx = [t \in Threads |-> 0]
    /\ tacc = [t \in Threads |-> 0]
    /\ tbox = [t \in Threads |-> Box3(V3(0, 0, 0), V3(0, 0, 0))]

Init ==
    /\ heap \in {<<>>, Operands0}
    /\ InitCommon

\* A constructor call returning r.
Call(name, args, r) ==
    /\ heap' = HeapOf(heap, r)
    /\ res' = IF r.new THEN Len(heap) + 1 ELSE r.addr
    /\ err' = r.err
    /\ op' = [name |-> name, args |-> args, fresh |-> r.new]
    /\ ret' = NoRet
    /\ UNCHANGED <<tpc, tself, tpt, tidx, tacc, tbox>>

\* The leaf constructors are called in a fresh program.
Fresh == heap = <<>> /\ op.name = "init"

CallRevolveTheta3D ==
    \E sdf \in Profiles, theta \in Thetas :
        Fresh /\ Call("RevolveTheta3D", <<sdf, theta>>, RevolveTheta3D(sdf, theta))

CallRevolve3D ==
    \E sdf \in Profiles : Fresh /\ Call("Revolve3D", <<sdf>>, Revolve3D(sdf))

CallExtrude3D ==
    \E sdf \in Profiles, height \in Lens :
        Fresh /\ Call("Extrude3D", <<sdf, height>>, Extrude3D(sdf, height))

CallTwistExtrude3D ==
    \E sdf \in Profiles, height \in Lens, twist \in Twists :
        Fresh /\ Call("TwistExtrude3D", <<sdf, height, twist>>,
                      TwistExtrude3D(sdf, height, twist))

CallScaleExtrude3D ==
    \E sdf \in Profiles, height \in Lens, scale \in Scales :
        Fresh /\ Call("ScaleExtrude3D", <<sdf, height, scale>>,
                      ScaleExtrude3D(sdf, height, scale))

CallScaleTwistExtrude3D ==
    \E sdf \in Profiles, height \in Lens, twist \in Twists, scale \in Scales :
        Fresh /\ Call("ScaleTwistExtrude3D", <<sdf, height, twist, scale>>,
                      ScaleTwistExtrude3D(sdf, height, twist, scale))

CallExtrudeRounded3D ==
    \E sdf \in Profiles, height \in Lens, round \in Lens :
        Fresh /\ Call("ExtrudeRounded3D", <<sdf, height, round>>,
                      ExtrudeRounded3D(sdf, height, round))

CallLoft3D ==
    \E sdf0 \in {Nil2, RectCentre, RectRight}, sdf1 \in {Nil2, RectCentre, RectRight},
       height \in Lens, round \in Lens :
        Fresh /\ Call("Loft3D", <<sdf0, sdf1, height, round>>,
                      Loft3D(sdf0, sdf1, height, round))

CallBox3D ==
    \E x \in Lens, y \in Lens, round \in Lens :
        Fresh /\ Call("Box3D", <<V3(x, y, F(2)), round>>, Box3D(V3(x, y, F(2)), round))

CallSphere3D ==
    \E radius \in Lens : Fresh /\ Call("Sphere3D", <<radius>>, Sphere3D(radius))

CallCylinder3D ==
    \E height \in Lens, radius \in Lens, round \in Lens :
        Fresh /\ Call("Cylinder3D", <<height, radius, round>>,
                      Cylinder3D(height, radius, round))

CallCapsule3D ==
    \E height \in Lens, radius \in Lens :
        Fresh /\ Call("Capsule3D", <<height, radius>>, Capsule3D(height, radius))

\* The cone is drawn with equal radii, where its slope vector is exact.
CallCone3D ==
    \E height \in Lens, r \in Lens, round \in Lens :
        Fresh /\ Call("Cone3D", <<height, r, r, round>>, Cone3D(height, r, r, round))

\* The SDF3 values a caller holds: the addresses of the heap, and nil.
Addrs == 0..Len(heap)

\* The combinators are called on the operands.
Stacked == heap # <<>> /\ op.name = "init"

\* A transform has just been built over the operands: the next call may
\* transform it again.
Nested == op.name = "Transform3D" /\ op.fresh /\ Len(heap) = Len(Operands0) + 1

CallTransform3D ==
    \E sdf \in Addrs, matrix \in Matrices :
        /\ Stacked \/ (Nested /\ sdf = res)
        /\ Call("Transform3D", <<sdf, matrix>>, Transform3D(heap, sdf, matrix))

CallScaleUniform3D ==
    \E sdf \in Addrs, k \in Factors :
        Stacked /\ Call("ScaleUniform3D", <<sdf, k>>, ScaleUniform3D(heap, sdf, k))

\* Argument lists are drawn up to the order of their non-nil entries: nils
\* anywhere, the nodes in address order, repeats allowed.
InOrder(sdf) ==
    \A i \in 1..Len(sdf), j \in 1..Len(sdf) :
        (i < j /\ sdf[i] # Nil /\ sdf[j] # Nil) => sdf[i] <= sdf[j]

CallUnion3D ==
    \E n \in 0..MaxArgs : \E sdf \in [1..n -> Addrs] :
        Stacked /\ InOrder(sdf) /\ Call("Union3D", <<sdf>>, Union3D(heap, sdf))

CallDifference3D ==
    \E s0 \in Addrs, s1 \in Addrs :
        Stacked /\ Call("Difference3D", <<s0, s1>>, Difference3D(heap, s0, s1))

CallElongate3D ==
    \E sdf \in Addrs, hv \in Vecs :
        Stacked /\ Call("Elongate3D", <<sdf, hv>>, Elongate3D(heap, sdf, hv))

CallIntersect3D ==
    \E s0 \in Addrs, s1 \in Addrs :
        Stacked /\ Call("Intersect3D", <<s0, s1>>, Intersect3D(heap, s0, s1))

CallCut3D ==
    \E sdf \in Addrs, a \in {V3(0, 0, 0), V3(F(1), 0, 0)}, n \in Vecs :
        Stacked /\ Call("Cut3D", <<sdf, a, n>>, Cut3D(heap, sdf, a, n))

CallArray3D ==
    \E sdf \in Addrs, nx \in Counts, ny \in Counts, nz \in Counts, step \in Vecs :
        Stacked /\ Call("Array3D", <<sdf, <<nx, ny, nz>>, step>>,
                        Array3D(heap, sdf, <<nx, ny, nz>>, step))

CallRotateUnion3D ==
    \E sdf \in Addrs, num \in Counts, step \in Matrices :
        Stacked /\ Call("RotateUnion3D", <<sdf, num, step>>,
                        RotateUnion3D(heap, sdf, num, step))

CallRotateCopy3D ==
    \E sdf \in Addrs, num \in {0, 1, 2, 4} :
        Stacked /\ Call("RotateCopy3D", <<sdf, num>>, RotateCopy3D(heap, sdf, num))

CallOffset3D ==
    \E sdf \in Addrs, offset \in Lens \cup {F(-2)} :
        Stacked /\ Call("Offset3D", <<sdf, offset>>, Offset3D(heap, sdf, offset))

CallShell3D ==
    \E sdf \in Addrs, thickness \in Lens :
        Stacked /\ Call("Shell3D", <<sdf, thickness>>, Shell3D(heap, sdf, thickness))

Next ==
    \/ CallRevolveTheta3D
    \/ CallRevolve3D
    \/ CallExtrude3D
    \/ CallTwistExtrude3D
    \/ CallScaleExtrude3D
    \/ CallScaleTwistExtrude3D
    \/ CallExtrudeRounded3D
    \/ CallLoft3D
    \/ CallBox3D
    \/ CallSphere3D
    \/ CallCylinder3D
    \/ CallCapsule3D
    \/ CallCone3D
    \/ CallTransform3D
    \/ CallScaleUniform3D
    \/ CallUnion3D
    \/ CallDifference3D
    \/ CallElongate3D
    \/ CallIntersect3D
    \/ CallCut3D
    \/ CallArray3D
    \/ CallRotateUnion3D
    \/ CallRotateCopy3D
    \/ CallOffset3D
    \/ CallShell3D

Spec == Init /\ [][Next]_vars

(***************************************************************************)
(* A scene: one node of every type, built bottom-up by the constructors.   *)
(***************************************************************************)

SceneLeaves ==
    << Box3D(V3(F(4), F(2), F(2)), 0).node,
       Sphere3D(F(1)).node,
       Extrude3D(RectCentre, F(2)).node,
       RevolveTheta3D(RectRight, 0).node,
       ExtrudeRounded3D(RectCentre, F(2), One \div 2).node,
       Loft3D(RectCentre, RectRight, F(2), 0).node,
       Cylinder3D(F(2), F(1), 0).node,
       Cone3D(F(2), F(1), F(1), 0).node >>

\* The combinators, each over the leaves.
Scene ==
    SceneLeaves \o
    << Transform3D(SceneLeaves, 1, Translate3d(V3(F(2), 0, 0))).node,
       ScaleUniform3D(SceneLeaves, 2, F(2)).node,
       Union3D(SceneLeaves, <<1, 2, 3>>).node,
       Difference3D(SceneLeaves, 1, 2).node,
       Elongate3D(SceneLeaves, 2, V3(F(2), 0, 0)).node,
       Intersect3D(SceneLeaves, 1, 2).node,
       Cut3D(SceneLeaves, 1, V3(0, 0, 0), V3(One, 0, 0)).node,
       Array3D(SceneLeaves, 2, <<2, 2, 1>>, V3(F(2), F(2), 0)).node,
       RotateUnion3D(SceneLeaves, 3, 2, RotateZ(1)).node,
       RotateCopy3D(SceneLeaves, 1, 2).node,
       Offset3D(SceneLeaves, 2, One).node,
       Shell3D(SceneLeaves, 1, One).node >>

SceneAddrs == 1..Len(Scene)

\* The points the methods are called at.
MethodPoints == {V3(0, 0, 0), V3(F(2), One, 0), V3(F(-3), 0, One)}

MinFuncs == {"math.Min", "RoundMin"}

MaxFuncs == {"math.Max", "RoundMax"}

ExtrudeFuncs == {NormalExtrude, TwistExtrude(F(2), F(2))}

(***************************************************************************)
(* The methods, called one at a time on the scene                          *)
(***************************************************************************)

InitMethods ==
    /\ heap = Scene
    /\ InitCommon

\* A method call on the node at address a, leaving the heap h.
Method(name, args, h, r) ==
    /\ heap' = h
    /\ op' = [name |-> name, args |-> args, fresh |-> FALSE]
    /\ ret' = r
    /\ UNCHANGED <<res, err, tpc, tself, tpt, tidx, tacc, tbox>>

\* A variant of SetMin: the blend is one cell that all the nodes share.
SetMinShared(h, a, min) ==
    [b \in DOMAIN h |-> IF "min" \in DOMAIN h[b] THEN [h[b] EXCEPT !.min = min] ELSE h[b]]

\* The setters: s.min = min, s.max = max, s.extrude = extrude.
SetMin(h, a, min) == [h EXCEPT ![a].min = min]

SetMax(h, a, max) == [h EXCEPT ![a].max = max]

SetExtrude(h, a, extrude) == [h EXCEPT ![a].extrude = extrude]

OfKind(k) == {a \in 1..Len(heap) : heap[a].kind = k}

CallEvaluate ==
    \E a \in 1..Len(heap), p \in MethodPoints :
        Method("Evaluate", <<a, p>>, heap, [kind |-> "float64", v |-> Evaluate(heap, a, p)])

CallBoundingBox ==
    \E a \in 1..Len(heap) :
        Method("BoundingBox", <<a>>, heap, [kind |-> "d3.Box", v |-> BoundingBox(heap, a)])

CallSetExtrude ==
    \E a \in OfKind("ExtrudeSDF3"), extrude \in ExtrudeFuncs :
        Method("ExtrudeSDF3.SetExtrude", <<a, extrude>>, SetExtrude(heap, a, extrude), NoRet)

CallUnionSetMin ==
    \E a \in OfKind("UnionSDF3"), min \in MinFuncs :
        Method("UnionSDF3.SetMin", <<a, min>>, SetMin(heap, a, min), NoRet)

CallDifferenceSetMax ==
    \E a \in OfKind("DifferenceSDF3"), max \in MaxFuncs :
        Method("DifferenceSDF3.SetMax", <<a, max>>, SetMax(heap, a, max), NoRet)

CallIntersectionSetMax ==
    \E a \in OfKind("IntersectionSDF3"), max \in MaxFuncs :
        Method("IntersectionSDF3.SetMax", <<a, max>>, SetMax(heap, a, max), NoRet)

CallArraySetMin ==
    \E a \in OfKind("ArraySDF3"), min \in MinFuncs :
        Method("ArraySDF3.SetMin", <<a, min>>, SetMin(heap, a, min), NoRet)

CallRotateUnionSetMin ==
    \E a \in OfKind("RotateUnionSDF3"), min \in MinFuncs :
        Method("RotateUnionSDF3.SetMin", <<a, min>>, SetMin(heap, a, min), NoRet)

NextMethods ==
    \/ CallEvaluate
    \/ CallBoundingBox
    \/ CallSetExtrude
    \/ CallUnionSetMin
    \/ CallDifferenceSetMax
    \/ CallIntersectionSetMax
    \/ CallArraySetMin
    \/ CallRotateUnionSetMin

SpecMethods == InitMethods /\ [][NextMethods]_vars

(***************************************************************************)
(* Evaluate and BoundingBox, called by several threads on the scene.  A    *)
(* thread runs the loop of UnionSDF3.Evaluate or of ArraySDF3.Evaluate one *)
(* pass at a time; the other threads run between its passes.               *)
(***************************************************************************)

InitThreads ==
    /\ heap = Scene
    /\ InitCommon

\* The nodes the threads call: a leaf, the union and the array.
Roots == {a \in SceneAddrs : Scene[a].kind \in {"BoxSDF3", "UnionSDF3", "ArraySDF3"}}

ThreadPoints == {V3(0, 0, 0), V3(F(2), One, 0)}

\* A variant of Store: d is one cell that all the threads write.
StoreShared(f, t, v) == [u \in DOMAIN f |-> v]

\* An assignment to the local d of thread t: each call has its own d.
Store(f, t, v) == [f EXCEPT ![t] = v]

Enter(t, a, p, pc, i, d) ==
    /\ tpc[t] = "idle"
    /\ tpc' = [tpc EXCEPT ![t] = pc]
    /\ tself' = [tself EXCEPT ![t] = a]
    /\ tpt' = [tpt EXCEPT ![t] = p]
    /\ tidx' = [tidx EXCEPT ![t] = i]
    /\ tacc' = Store(tacc, t, d)
    /\ UNCHANGED <<heap, op, res, err, ret, tbox>>

\* var d float64
ThreadUnionEvaluate ==
    \E t \in Threads, a \in Roots, p \in ThreadPoints :
        heap[a].kind = "UnionSDF3" /\ Enter(t, a, p, "UnionSDF3.Evaluate", 1, 0)

\* for i, x := range s.sdf { ... }; return d
ThreadUnionStep ==
    \E t \in Threads :
        /\ tpc[t] = "UnionSDF3.Evaluate"
        /\ IF tidx[t] <= Len(heap[tself[t]].sdf)
           THEN /\ tacc' = Store(tacc, t, UnionStep(heap, heap[tself[t]], tpt[t], tidx[t], tacc[t]))
                /\ tidx' = [tidx EXCEPT ![t] = @ + 1]
                /\ UNCHANGED tpc
           ELSE /\ tpc' = [tpc EXCEPT ![t] = "Evaluate.return"]
                /\ UNCHANGED <<tacc, tidx>>
        /\ UNCHANGED <<heap, op, res, err, ret, tself, tpt, tbox>>

\* d := math.MaxFloat64
ThreadArrayEvaluate ==
    \E t \in Threads, a \in Roots, p \in ThreadPoints :
        heap[a].kind = "ArraySDF3" /\ Enter(t, a, p, "ArraySDF3.Evaluate", 0, MaxFloat64)

\* for j ... for k ... for l ... { ... }; return d
ThreadArrayStep ==
    \E t \in Threads :
        /\ tpc[t] = "ArraySDF3.Evaluate"
        /\ LET s == heap[tself[t]]
           IN  IF tidx[t] < s.num[1] * s.num[2] * s.num[3]
               THEN /\ tacc' = Store(tacc, t, ArrayStep(heap, s, tpt[t], tidx[t], tacc[t]))
                    /\ tidx' = [tidx EXCEPT ![t] = @ + 1]
                    /\ UNCHANGED tpc
               ELSE /\ tpc' = [tpc EXCEPT ![t] = "Evaluate.return"]
                    /\ UNCHANGED <<tacc, tidx>>
        /\ UNCHANGED <<heap, op, res, err, ret, tself, tpt, tbox>>

\* Evaluate of a node without a loop of its own: one expression.
ThreadLeafEvaluate ==
    \E t \in Threads, a \in Roots, p \in ThreadPoints :
        /\ heap[a].kind \notin {"UnionSDF3", "ArraySDF3"}
        /\ Enter(t, a, p, "Evaluate.return", 0, Evaluate(heap, a, p))

\* return s.bb
ThreadBoundingBox ==
    \E t \in Threads, a \in Roots :
        /\ tpc[t] = "idle"
        /\ tpc' = [tpc EXCEPT ![t] = "BoundingBox.return"]
        /\ tself' = [tself EXCEPT ![t] = a]
        /\ tbox' = [tbox EXCEPT ![t] = BoundingBox(heap, a)]
        /\ UNCHANGED <<heap, op, res, err, ret, tpt, tidx, tacc>>

\* The caller takes the value; the frame of the call is gone.
ThreadReturn ==
    \E t \in Threads :
        /\ tpc[t] \in {"Evaluate.return", "BoundingBox.return"}
        /\ tpc' = [tpc EXCEPT ![t] = "idle"]
        /\ tself' = [tself EXCEPT ![t] = Nil]
        /\ tpt' = [tpt EXCEPT ![t] = V3(0, 0, 0)]
        /\ tidx' = [tidx EXCEPT ![t] = 0]
        /\ tacc' = Store(tacc, t, 0)
        /\ tbox' = [tbox EXCEPT ![t] = Box3(V3(0, 0, 0), V3(0, 0, 0))]
        /\ UNCHANGED <<heap, op, res, err, ret>>

NextThreads ==
    \/ ThreadUnionEvaluate
    \/ ThreadUnionStep
    \/ ThreadArrayEvaluate
    \/ ThreadArrayStep
    \/ ThreadLeafEvaluate
    \/ ThreadBoundingBox
    \/ ThreadReturn

SpecThreads == InitThreads /\ [][NextThreads]_vars

(***************************************************************************)
(* Properties of the constructors                                          *)
(***************************************************************************)

Points2 == {V2(x, y) : x \in Coords, y \in Coords}

InBox2(b, q) ==
    /\ b.Min.X <= q.X /\ q.X <= b.Max.X
    /\ b.Min.Y <= q.Y /\ q.Y <= b.Max.Y

\* A shape is sound when its box holds every point at distance <= 0.
Sound2(s) == \A q \in Points2 : FLe(SDF2Evaluate(s, q), 0) => InBox2(SDF2BoundingBox(s), q)

Sound(h, a) == \A p \in Points : FLe(Evaluate(h, a, p), 0) => InBox(BoundingBox(h, a), p)

BoxOrdered(b) == b.Min.X <= b.Max.X /\ b.Min.Y <= b.Max.Y /\ b.Min.Z <= b.Max.Z

BoxOrdered2(b) == b.Min.X <= b.Max.X /\ b.Min.Y <= b.Max.Y

\* The last call returned a node and no error.
Returned == err = "nil" /\ res # Nil

\* The last call allocated the node it returned.
Built == Returned /\ op.fresh

ExtrudeNames == {"Extrude3D", "TwistExtrude3D", "ScaleExtrude3D", "ScaleTwistExtrude3D"}

BooleanNames == {"Union3D", "Difference3D", "Intersect3D", "Cut3D"}

ProfileNames == ExtrudeNames \cup {"RevolveTheta3D", "Revolve3D", "ExtrudeRounded3D"}

ChildNames == {"Transform3D", "ScaleUniform3D", "Elongate3D", "Cut3D", "Array3D",
               "RotateUnion3D", "RotateCopy3D", "Offset3D", "Shell3D"}

\* The SDF3 operands of the last call.
Operands ==
    IF op.name = "Union3D" THEN {op.args[1][i] : i \in 1..Len(op.args[1])} \ {Nil}
    ELSE IF op.name \in {"Difference3D", "Intersect3D"} THEN {op.args[1], op.args[2]} \ {Nil}
    ELSE IF op.name \in ChildNames THEN {op.args[1]} \ {Nil}
    ELSE {}

\* The SDF2 operands of the last call.
Profiles2 ==
    IF op.name \in ProfileNames THEN {op.args[1]} \ {Nil2}
    ELSE IF op.name = "Loft3D" THEN {op.args[1], op.args[2]} \ {Nil2}
    ELSE {}

\* C1: the box of an extrusion (plain, twisted, scaled, scaled and twisted)
\* of a sound profile holds every point of the extrusion at distance <= 0.
C1_ExtrudeBoxSound ==
    (op.name \in ExtrudeNames /\ Built /\ \A s \in Profiles2 : Sound2(s))
        => Sound(heap, res)

\* The operands whose box holds every point of theirs at distance <= 0.
SoundOperands == {a \in DOMAIN Operands0 : Sound(Operands0, a)}

\* C2: the box of a Union3D, Difference3D, Intersect3D or Cut3D with the
\* default blend, built over sound operands, holds every point of the result
\* at distance <= 0.
C2_BooleanBoxSound ==
    (op.name \in BooleanNames /\ Returned /\ Operands \subseteq SoundOperands)
        => Sound(heap, res)

C2_Witness ==
    /\ op.name = "Intersect3D" /\ Built
    /\ Operands \subseteq SoundOperands
    /\ BoundingBox(heap, op.args[1]) # BoundingBox(heap, op.args[2])
    /\ \E p \in Points : FLe(Evaluate(heap, res, p), 0)

\* C3: every box a constructor returns, over operands whose boxes are
\* ordered, has min <= max on each axis.
C3_BoxOrdered ==
    (/\ Built
     /\ \A a \in Operands : BoxOrdered(BoundingBox(heap, a))
     /\ \A s \in Profiles2 : BoxOrdered2(SDF2BoundingBox(s)))
        => BoxOrdered(BoundingBox(heap, res))

\* C4: Union3D of no arguments is nil without an error, and Union3D of one
\* non-nil argument is that argument itself.
C4_UnionOfFew ==
    op.name = "Union3D" =>
        /\ Len(op.args[1]) = 0 => (res = Nil /\ err = "nil")
        /\ (Len(op.args[1]) = 1 /\ op.args[1][1] # Nil)
               => (res = op.args[1][1] /\ err = "nil")

C4_Witness ==
    /\ op.name = "Union3D" /\ Len(op.args[1]) = 1 /\ op.args[1][1] # Nil
    /\ res = op.args[1][1]

\* The address of the node a result r stands for, in HeapOf(h, r).
AddrOf(h, r) == IF r.new THEN Len(h) + 1 ELSE r.addr

SameResult(h1, a1, h2, a2) ==
    \/ a1 = Nil /\ a2 = Nil
    \/ /\ a1 # Nil /\ a2 # Nil
       /\ BoundingBox(h1, a1) = BoundingBox(h2, a2)
       /\ \A p \in Points : Evaluate(h1, a1, p) = Evaluate(h2, a2, p)

\* C5: nil is the identity of the booleans: Union3D of a list is Union3D of
\* the list without its nils (same box and same distances, or nil both),
\* Difference3D(A, nil) is A and Difference3D(nil, B) is nil.
C5_NilIdentity ==
    /\ (op.name = "Union3D" /\ Len(StripNil(op.args[1])) < Len(op.args[1])) =>
           LET r == Union3D(heap, StripNil(op.args[1]))
           IN  err = "nil" /\ r.err = "nil"
               /\ SameResult(heap, res, HeapOf(heap, r), AddrOf(heap, r))
    /\ (op.name = "Difference3D" /\ op.args[2] = Nil) => (res = op.args[1] /\ err = "nil")
    /\ (op.name = "Difference3D" /\ op.args[1] = Nil) => (res = Nil /\ err = "nil")

C5_Witness ==
    /\ op.name = "Union3D" /\ Built
    /\ Len(StripNil(op.args[1])) < Len(op.args[1])

\* The constructors that return (SDF3, error).
FallibleNames == {"RevolveTheta3D", "Revolve3D", "ExtrudeRounded3D", "Loft3D", "Box3D",
                  "Sphere3D", "Cylinder3D", "Capsule3D", "Cone3D", "Shell3D"}

\* C6: a fallible constructor returns a node and no error, or nil and an
\* error: never nil without an error, and never a node with one.
C6_NodeOrError ==
    op.name \in FallibleNames =>
        \/ res # Nil /\ err = "nil"
        \/ res = Nil /\ err = "error"

\* The height argument of the constructors that take one and can fail.
HeightArg ==
    IF op.name \in {"Cylinder3D", "Capsule3D", "Cone3D"} THEN op.args[1]
    ELSE IF op.name = "ExtrudeRounded3D" THEN op.args[2]
    ELSE op.args[3]

\* C7: Cylinder3D, Capsule3D, Cone3D, ExtrudeRounded3D and Loft3D fail when
\* the height is <= 0: no node comes back from such a call.
C7_HeightPositive ==
    (/\ op.name \in {"Cylinder3D", "Capsule3D", "Cone3D", "ExtrudeRounded3D", "Loft3D"}
     /\ FLe(HeightArg, 0))
        => (err # "nil" /\ res = Nil)

\* C8: Evaluate of a node a constructor returned is a finite number at
\* every point.
C8_EvaluateFinite ==
    Built => \A p \in Points : IsFinite(Evaluate(heap, res, p))

BooleanSetters == {"UnionSDF3.SetMin", "DifferenceSDF3.SetMax", "IntersectionSDF3.SetMax"}

Setters == BooleanSetters \cup {"ExtrudeSDF3.SetExtrude", "ArraySDF3.SetMin",
                                "RotateUnionSDF3.SetMin"}

\* The field a setter assigns.
FieldOf(name) ==
    IF name = "ExtrudeSDF3.SetExtrude" THEN "extrude"
    ELSE IF name \in {"DifferenceSDF3.SetMax", "IntersectionSDF3.SetMax"} THEN "max"
    ELSE "min"

\* C9, as stated: a method call other than SetMin on a union and SetMax on
\* a difference or an intersection leaves every field of every node as it was.
C9_OnlyBooleanSetters ==
    [][op'.name \notin BooleanSetters => heap' = heap]_vars

\* C9, amended: a call of Evaluate or BoundingBox leaves every field of
\* every node as it was; the calls that write are SetMin on a union, an array
\* and a rotate-union, SetMax on a difference and an intersection, and
\* SetExtrude on an extrusion, and each writes one field of its receiver
\* and nothing else.
C9_OnlySetters ==
    [][/\ op'.name \notin Setters => heap' = heap
       /\ op'.name \in Setters =>
              heap' = [heap EXCEPT ![op'.args[1]][FieldOf(op'.name)] = op'.args[2]]]_vars

C9_Witness ==
    /\ op.name = "Evaluate"
    /\ \E a \in 1..Len(heap) : heap[a].kind = "ArraySDF3" /\ heap[a].min # Scene[a].min
    /\ \E a \in 1..Len(heap) : heap[a].kind = "ExtrudeSDF3" /\ heap[a].extrude # Scene[a].extrude

\* C10: with threads calling Evaluate and BoundingBox on a shared scene in
\* any interleaving, and no setter called, every call returns what it
\* returns when run alone, and every node, its box included, stays as the
\* constructors built it.
C10_ConcurrentReads ==
    /\ heap = Scene
    /\ \A t \in Threads :
           /\ tpc[t] = "Evaluate.return" => tacc[t] = Evaluate(Scene, tself[t], tpt[t])
           /\ tpc[t] = "BoundingBox.return" => tbox[t] = BoundingBox(Scene, tself[t])

C10_Witness ==
    \E t \in Threads, u \in Threads :
        /\ t # u
        /\ tpc[t] = "Evaluate.return" /\ heap[tself[t]].kind = "UnionSDF3"
        /\ tpc[u] = "ArraySDF3.Evaluate" /\ tidx[u] > 0
        /\ tpt[t] # tpt[u]

\* The excess of |x| over half of the side: negative inside the slab.
AxisExcess(x, side) == (IF x < 0 THEN -x ELSE x) - side \div 2

\* m: the largest excess of the point p over the three slabs of the box.
MaxExcess(p, size) ==
    LET ex == AxisExcess(p.X, size.X)
        ey == AxisExcess(p.Y, size.Y)
        ez == AxisExcess(p.Z, size.Z)
    IN  IF ex >= ey /\ ex >= ez THEN ex ELSE IF ey >= ez THEN ey ELSE ez

\* The number of axes on which the point p is outside the slab of the box.
AxesOutside(p, size) ==
    Cardinality({i \in 1..3 :
        AxisExcess(<<p.X, p.Y, p.Z>>[i], <<size.X, size.Y, size.Z>>[i]) > 0})

\* C11: for Box3D(size, 0) and every point p, Evaluate(p) has the sign of
\* m = max over axes of (|p_i| - size_i/2), and equals m whenever at most
\* one axis of p is outside its slab.
C11_BoxDistance ==
    (op.name = "Box3D" /\ Built /\ op.args[2] = 0) =>
        \A p \in Points :
            LET e == Evaluate(heap, res, p)
                m == MaxExcess(p, op.args[1])
            IN  /\ IsFinite(e)
                /\ Sign(e) = Sign(m)
                /\ AxesOutside(p, op.args[1]) <= 1 => e = m

C11_Witness ==
    /\ op.name = "Box3D" /\ Built
    /\ op.args = <<V3(F(2), F(2), F(2)), 0>>
    /\ Evaluate(heap, res, V3(0, 0, 0)) = F(-1)
    /\ Evaluate(heap, res, V3(F(1), 0, 0)) = 0
    /\ Evaluate(heap, res, V3(F(2), 0, 0)) = F(1)
    /\ Evaluate(heap, res, V3(F(2), F(2), 0)) > F(1)

\* p / k, component by component.
r3Div(p, k) == V3(FDiv(p.X, k), FDiv(p.Y, k), FDiv(p.Z, k))

\* The box b with both corners multiplied by k.
ScaledBox(b, k) == Box3(r3Scale(k, b.Min), r3Scale(k, b.Max))

\* A scale factor whose reciprocal is exact: a power of two.
ExactReciprocal(k) == k \in {One \div 4, One \div 2, One, F(2), F(4)}

Scaled == op.name = "ScaleUniform3D" /\ Built /\ FGt(op.args[2], 0)

Unimodular(m) == Determinant(m) \in {One, -One}

\* A row with one entry of 1 or -1 and zeros elsewhere.
UnitRow(r) ==
    /\ {r.X, r.Y, r.Z} \subseteq {0, One, -One}
    /\ Cardinality({i \in 1..3 : <<r.X, r.Y, r.Z>>[i] # 0}) = 1

\* Translations, quarter-turn rotations and reflections: the axes map to axes.
AxisPreserving(m) == UnitRow(m.r1) /\ UnitRow(m.r2) /\ UnitRow(m.r3) /\ Unimodular(m)

\* The box a holds the box b.
BoxContains(a, b) == InBox(a, b.Min) /\ InBox(a, b.Max)

\* The last call built Transform3D(Transform3D(sdf, M), M.Inverse()).
RoundTrip ==
    /\ op.name = "Transform3D" /\ Built
    /\ heap[op.args[1]].kind = "TransformSDF3"
    /\ Unimodular(heap[op.args[1]].matrix)
    /\ op.args[2] = Inverse(heap[op.args[1]].matrix)

\* C13 as stated: for every child sdf and every invertible matrix M,
\* Transform3D(Transform3D(sdf, M), M.Inverse()) has the same Evaluate value
\* at every point and the same BoundingBox as sdf.
C13_RoundTripSame ==
    RoundTrip => SameResult(heap, res, heap, heap[op.args[1]].sdf)

\* C13 amended: for every child sdf and every invertible matrix M, the round
\* trip has the same Evaluate value as sdf at every point; its BoundingBox
\* is the box of sdf when M is a translation or an axis-preserving rotation,
\* and holds the box of sdf for every other M.
C13_RoundTrip ==
    RoundTrip =>
        LET sdf == heap[op.args[1]].sdf
            M == heap[op.args[1]].matrix
        IN  /\ \A p \in Points : Evaluate(heap, res, p) = Evaluate(heap, sdf, p)
            /\ AxisPreserving(M) => BoundingBox(heap, res) = BoundingBox(heap, sdf)
            /\ BoxContains(BoundingBox(heap, res), BoundingBox(heap, sdf))

C13_Witness ==
    /\ RoundTrip
    /\ heap[op.args[1]].matrix = RotateZ(1)
    /\ BoundingBox(heap, op.args[1]) # BoundingBox(heap, heap[op.args[1]].sdf)
    /\ BoundingBox(heap, res) = BoundingBox(heap, heap[op.args[1]].sdf)

\* C14: every primitive built without error stores non-negative rounded-core
\* dimensions: Box3D's half-size less round on every axis, and Cylinder3D's
\* radius less round and half-height less round.
C14_CoreNonNegative ==
    (op.name \in {"Box3D", "Cylinder3D", "Capsule3D"} /\ Built) =>
        LET s == heap[res]
        IN  /\ s.kind = "BoxSDF3" =>
                   FGe(s.size.X, 0) /\ FGe(s.size.Y, 0) /\ FGe(s.size.Z, 0)
            /\ s.kind = "CylinderSDF3" => FGe(s.radius, 0) /\ FGe(s.height, 0)

\* The offset of the n-th copy (n from 1) of an array of num copies:
\* (j * step.x, k * step.y, l * step.z) for 0 <= j < nx, 0 <= k < ny, 0 <= l < nz.
CopyOffset(num, step, n) ==
    LET l == (n - 1) % num[3]
        k == ((n - 1) \div num[3]) % num[2]
        j == (n - 1) \div (num[3] * num[2])
    IN  V3(FMul(F(j), step.X), FMul(F(k), step.Y), FMul(F(l), step.Z))

\* The heap h followed by the child sdf translated by each copy's offset.
WithCopies(h, sdf, num, step) ==
    h \o [n \in 1..(num[1] * num[2] * num[3]) |->
              Transform3D(h, sdf, Translate3d(CopyOffset(num, step, n))).node]

\* C15: Array3D returns nil iff some count is <= 0; otherwise, with the
\* default blend, it has the Evaluate value at every point and the
\* BoundingBox of Union3D of the child translated by (j * step.x, k * step.y,
\* l * step.z) for every copy, for positive, zero and negative steps.
C15_ArrayIsUnion ==
    (op.name = "Array3D" /\ err = "nil") =>
        LET sdf == op.args[1]
            num == op.args[2]
            step == op.args[3]
            h == WithCopies(heap, sdf, num, step)
            r == Union3D(h, [n \in 1..(num[1] * num[2] * num[3]) |-> Len(heap) + n])
        IN  /\ res = Nil <=> (num[1] <= 0 \/ num[2] <= 0 \/ num[3] <= 0)
            /\ res # Nil => SameResult(heap, res, HeapOf(h, r), AddrOf(h, r))

C15_Witness ==
    /\ op.name = "Array3D" /\ Built
    /\ op.args[2] = <<2, 2, 2>> /\ op.args[3] = V3(F(1), F(1), F(1))
    /\ BoundingBox(heap, res) # BoundingBox(heap, op.args[1])
    /\ \E p \in Points : Evaluate(heap, res, p) # Evaluate(heap, op.args[1], p)

====
